---- MODULE Spec2Model ----
(***************************************************************************)
(* Model of wait_for_zpool_events.py: the handoff queue between the event  *)
(* intake loop (main) and the coalescing back-off scheduler                *)
(* (send_events_thread).                                                   *)
(*                                                                         *)
(* Time.  The scheduler only ever uses the wall clock through the          *)
(* difference  next_send_time - time.time()  (line 88), so the model keeps *)
(* that difference, `timeout`, as state: an assignment                     *)
(* next_send_time = time.time() + X  is  timeout' = X,  and the passage of *)
(* d seconds is  timeout' = timeout - d.  The clock is sampled at a few    *)
(* instants of every wait: Small seconds after the deadline was set, Small *)
(* seconds before it expires, exactly when it expires, and late.           *)
(*                                                                         *)
(* The two threads run at their own speed: one action is one iteration of  *)
(* the scheduler's inner loop (or one put of Intake), and the clock may     *)
(* advance between any two of them, so the scheduler may find the deadline *)
(* passed with labels still waiting in the queue.                          *)
(*                                                                         *)
(* Strings are sequences of character codes, a dict is the sequence of its *)
(* <<key, value>> items in insertion order.                                *)
(***************************************************************************)
EXTENDS Integers, Sequences, FiniteSets, TLC

\* ---------------------------------------------------------------- bounds
MaxQueue == 2
MaxCount == 2
Small == 10

\* ------------------------------------------------------ program constants
SECONDS_BETWEEN_NOTIFICATIONS == <<30, 300, 1800, 7200, 43200, 86400, 172800>>
MAX_SECONDS_BETWEEN_NOTIFICATIONS == 5184000

Colon == 58
Comma == 44
Space == 32
Digit0 == 48

\* 'sysevent.fs.zfs.history_event', ... of uninteresting_events, and the
\* scrub_finish test of line 149
HistoryEvent ==
    <<115, 121, 115, 101, 118, 101, 110, 116, 46, 102, 115, 46, 122, 102, 115,
      46, 104, 105, 115, 116, 111, 114, 121, 95, 101, 118, 101, 110, 116>>

TrimStart ==
    <<115, 121, 115, 101, 118, 101, 110, 116, 46, 102, 115, 46, 122, 102, 115,
      46, 116, 114, 105, 109, 95, 115, 116, 97, 114, 116>>

TrimFinish ==
    <<115, 121, 115, 101, 118, 101, 110, 116, 46, 102, 115, 46, 122, 102, 115,
      46, 116, 114, 105, 109, 95, 102, 105, 110, 105, 115, 104>>

ScrubStart ==
    <<115, 121, 115, 101, 118, 101, 110, 116, 46, 102, 115, 46, 122, 102, 115,
      46, 115, 99, 114, 117, 98, 95, 115, 116, 97, 114, 116>>

ScrubFinish ==
    <<115, 121, 115, 101, 118, 101, 110, 116, 46, 102, 115, 46, 122, 102, 115,
      46, 115, 99, 114, 117, 98, 95, 102, 105, 110, 105, 115, 104>>

uninteresting_events == <<HistoryEvent, TrimStart, TrimFinish, ScrubStart>>

\* 'scrub in progress' of is_scrub_in_progress
ScrubInProgressText ==
    <<115, 99, 114, 117, 98, 32, 105, 110, 32, 112, 114, 111, 103, 114, 101,
      115, 115>>

\* 'zpool monitor script start'
StartText ==
    <<122, 112, 111, 111, 108, 32, 109, 111, 110, 105, 116, 111, 114, 32, 115,
      99, 114, 105, 112, 116, 32, 115, 116, 97, 114, 116>>

\* The labels Intake hands over: "ab" and the scrub_finish class.
Labels == {<<97, 98>>, ScrubFinish}

\* ---- the event source
\* Time stamps as zpool events -H prints them (the comment of line 155).
Stamp ==
    <<70, 101, 98, 32, 32, 53, 32, 50, 48, 50, 51, 32, 48, 48, 58, 50, 52, 58,
      48, 49, 46, 54, 57, 53, 57, 51, 52, 56, 48, 54, 32, 32>>

OldStamp ==
    <<74, 97, 110, 32, 49, 53, 32, 50, 48, 50, 51, 32, 50, 51, 58, 53, 57, 58,
      53, 57, 46, 48, 48, 48, 48, 48, 48, 48, 48, 49, 32>>

Newline == 10

\* The lines the live stream may deliver, each with its line end.
Records ==
    { Stamp \o <<97, 98>> \o <<Newline>>,
      OldStamp \o <<97, 98>> \o <<Newline>>,
      <<97, 98>> \o <<Newline>>,
      Stamp \o HistoryEvent \o <<Newline>>,
      Stamp \o TrimStart \o <<Newline>>,
      Stamp \o TrimFinish \o <<Newline>>,
      Stamp \o ScrubStart \o <<Newline>>,
      Stamp \o ScrubFinish \o <<Newline>> }

\* What zpool events -H prints when the watcher starts: one line of an earlier day.
SnapshotOutputs == { OldStamp \o <<97, 98>> \o <<Newline>> }

\* What zpool status may do: print a status with or without a scrub running,
\* or fail (check_output raises).
StatusResults ==
    { [ok |-> TRUE, output |-> <<32, 32>> \o ScrubInProgressText \o <<Newline>>],
      [ok |-> TRUE, output |-> <<111, 107>> \o <<Newline>>],
      [ok |-> FALSE, output |-> <<>>] }

VARIABLES
    event_queue,         \* queue.Queue(): labels put by Intake, oldest first
    ready_to_send,       \* the pending batch {event: count}, insertion order
    notification_index,  \* -1 Idle, 0 Armed, >= 1 Escalated
    timeout,             \* next_send_time - time.time()
    running,             \* send_events_thread has not exited
    out,                 \* texts the scheduler's last step handed to send_zpool_status
    step,                \* the last step taken
    early,               \* per queued label: was it put before the deadline
    flushed,             \* the batch handed to the notifier by the last step
    waits,               \* <<wait set by the flush before, wait set by the last flush>>
    main,                \* where the main thread is: "notify" (line 129), "spawn"
                         \* (131-133), "snapshot" (135), "watch" (136-160), "exited"
    lines,               \* the startup snapshot of line 135
    started,             \* texts main handed to send_zpool_status (line 129)
    record,              \* the raw record the last step read from the stream
    oracle,              \* what the last step's zpool status query did, "unasked" if none
    since,               \* wait: the wait the last sent notification set (0: none sent),
                         \* t: the seconds passed since, counted up to that wait
    quiet                \* "expired": the deadline of an Armed or Escalated wait passed with
                         \* nothing pending and no label was received since; "rearmed": the
                         \* last label received was the first one after that; else "no"

vars == <<event_queue, ready_to_send, notification_index, timeout, running,
          out, step, early, flushed, waits, main, lines, started, record, oracle,
          since, quiet>>

\* ---------------------------------------------------------------- helpers
Min(a, b) == IF a < b THEN a ELSE b

\* SECONDS_BETWEEN_NOTIFICATIONS[k] with Python's 0-based index.
Ladder(k) == SECONDS_BETWEEN_NOTIFICATIONS[k + 1]

LastIndex == Len(SECONDS_BETWEEN_NOTIFICATIONS) - 1

IndexKeptWhenQuiet(idx) == idx
\* line 80, reached again after the break of line 108
IndexWhenIdle(idx) == -1

\* ---- dict operations on ready_to_send
Keys(d) == {d[i][1] : i \in 1..Len(d)}

CountOf(d, k) == IF \E i \in 1..Len(d) : d[i][1] = k
                 THEN (CHOOSE c \in {d[i][2] : i \in {j \in 1..Len(d) : d[j][1] = k}} : TRUE)
                 ELSE 0

IncrOnce(d, k) == IF k \in Keys(d) THEN d ELSE Append(d, <<k, 1>>)
\* ready_to_send[item] += 1 on a defaultdict(lambda: 0)
Incr(d, k) == IF k \in Keys(d)
              THEN [i \in 1..Len(d) |-> IF d[i][1] = k THEN <<k, d[i][2] + 1>> ELSE d[i]]
              ELSE Append(d, <<k, 1>>)

\* ---- string and tuple comparison, sorted()
\* Python's str <: the first differing character decides, a proper prefix is smaller.
LexLess(s, t) ==
    \E i \in 1..(Min(Len(s), Len(t)) + 1) :
        /\ \A j \in 1..(i - 1) : s[j] = t[j]
        /\ IF i <= Len(s) /\ i <= Len(t) THEN s[i] < t[i]
           ELSE i > Len(s) /\ i <= Len(t)

\* Python's tuple < on (event, count) items.
ItemLess(x, y) == LexLess(x[1], y[1]) \/ (x[1] = y[1] /\ x[2] < y[2])

RECURSIVE InsertSorted(_, _)
InsertSorted(x, s) ==
    IF s = <<>> THEN <<x>>
    ELSE IF ItemLess(x, Head(s)) THEN <<x>> \o s
    ELSE <<Head(s)>> \o InsertSorted(x, Tail(s))

RECURSIVE Sorted(_)
Sorted(s) == IF s = <<>> THEN <<>> ELSE InsertSorted(Head(s), Sorted(Tail(s)))

\* ---- formatting
\* str(n) for n >= 0
RECURSIVE Str(_)
Str(n) == IF n < 10 THEN <<Digit0 + n>> ELSE Str(n \div 10) \o <<Digit0 + (n % 10)>>

\* sep.join(items)
RECURSIVE Join(_, _)
Join(sep, items) ==
    IF items = <<>> THEN <<>>
    ELSE IF Len(items) = 1 THEN items[1]
    ELSE items[1] \o sep \o Join(sep, Tail(items))

\* max(ready_to_send.values())
MaxValue(d) == CHOOSE m \in {d[i][2] : i \in 1..Len(d)} :
                   \A i \in 1..Len(d) : d[i][2] <= m

RenderUnsorted(d) ==
    IF MaxValue(d) = 1
    THEN Join(<<Comma, Space>>, [i \in 1..Len(d) |-> d[i][1]])
    ELSE Join(<<Comma, Space>>,
              [i \in 1..Len(d) |-> d[i][1] \o <<Colon>> \o Str(d[i][2])])

\* the notification text s of lines 110-113
Render(d) ==
    IF MaxValue(d) = 1
    THEN Join(<<Comma, Space>>, [i \in 1..Len(d) |-> Sorted(d)[i][1]])
    ELSE Join(<<Comma, Space>>,
              [i \in 1..Len(d) |-> Sorted(d)[i][1] \o <<Colon>> \o Str(Sorted(d)[i][2])])

\* ---- the scheduler's decisions
CanWaitAlways(t) == TRUE
\* line 89: the scheduler waits on the queue only while the deadline is ahead
CanWait(t) == t > 0

DeadlineNeverArmed(idx, t) == t
DeadlineDebounced(idx, t) == Ladder(0)
DeadlinePushedOut(idx, t) == IF idx = -1 THEN Ladder(0) ELSE Ladder(idx)
\* lines 96-97: next_send_time - now after an item was received
DeadlineAfterGet(idx, t) == IF idx = -1 THEN Ladder(0) ELSE t

IndexStaysIdle(idx) == idx
\* lines 96-98
IndexAfterGet(idx) == IF idx = -1 THEN 0 ELSE idx

NextIndexStuck(idx) == idx
NextIndexSkip(idx) == Min(idx + 2, LastIndex)
NextIndexWrap(idx) == (idx + 1) % Len(SECONDS_BETWEEN_NOTIFICATIONS)
\* line 117
NextIndex(idx) == Min(idx + 1, LastIndex)

\* The wait the current deadline was set with.
CurrentWait == IF notification_index = -1 THEN MAX_SECONDS_BETWEEN_NOTIFICATIONS
               ELSE Ladder(notification_index)

\* How many times label l is in the queue or the pending batch.
RECURSIVE Occurs(_, _)
Occurs(q, l) == IF q = <<>> THEN 0
                ELSE (IF Head(q) = l THEN 1 ELSE 0) + Occurs(Tail(q), l)

InFlight(l) == Occurs(event_queue, l) + CountOf(ready_to_send, l)

\* ---- what Intake does with a line
IsSpace(c) == c \in {9, 10, 11, 12, 13, 32}
IsDigit(c) == c \in 48..57
IsWord(c) == IsDigit(c) \/ c \in 65..90 \/ c \in 97..122 \/ c = 95

\* str.strip()
RECURSIVE Strip(_)
Strip(s) ==
    IF s = <<>> THEN s
    ELSE IF IsSpace(Head(s)) THEN Strip(Tail(s))
    ELSE IF IsSpace(s[Len(s)]) THEN Strip(SubSeq(s, 1, Len(s) - 1))
    ELSE s

\* str.splitlines() of a text whose line ends are "\n"
RECURSIVE SplitLines(_)
SplitLines(t) ==
    IF t = <<>> THEN <<>>
    ELSE IF \E i \in 1..Len(t) : t[i] = Newline
    THEN LET i == CHOOSE k \in 1..Len(t) :
                      t[k] = Newline /\ \A j \in 1..(k - 1) : t[j] # Newline
         IN <<SubSeq(t, 1, i - 1)>> \o SplitLines(SubSeq(t, i + 1, Len(t)))
    ELSE <<t>>

\* sub in s
Contains(s, sub) ==
    \E i \in 0..(Len(s) - Len(sub)) : \A j \in 1..Len(sub) : s[i + j] = sub[j]

\* How many characters from position i on are white space / digits.
RECURSIVE SpacesFrom(_, _)
SpacesFrom(s, i) == IF i <= Len(s) /\ IsSpace(s[i]) THEN 1 + SpacesFrom(s, i + 1) ELSE 0

RECURSIVE DigitsFrom(_, _)
DigitsFrom(s, i) == IF i <= Len(s) /\ IsDigit(s[i]) THEN 1 + DigitsFrom(s, i + 1) ELSE 0

\* s[i..] starts with \d{2}:\d{2}:\d{2}\.\d{9}
ClockAt(s, i) ==
    /\ i + 17 <= Len(s)
    /\ \A k \in {0, 1, 3, 4, 6, 7} \cup (9..17) : IsDigit(s[i + k])
    /\ s[i + 2] = 58 /\ s[i + 5] = 58
    /\ s[i + 8] = 46

\* The length of the match of
\* ^\w{3}\s+\d{1,2}\s+\d{4}\s+\d{2}:\d{2}:\d{2}\.\d{9}\s+  at the start of s,
\* 0 if it does not match.
StampLength(s) ==
    IF ~(Len(s) >= 3 /\ \A k \in 1..3 : IsWord(s[k])) THEN 0
    ELSE LET sp1 == SpacesFrom(s, 4)
             day == 4 + sp1
             nd  == Min(DigitsFrom(s, day), 2)
             sp2 == SpacesFrom(s, day + nd)
             yr  == day + nd + sp2
             sp3 == SpacesFrom(s, yr + 4)
             clk == yr + 4 + sp3
             sp4 == SpacesFrom(s, clk + 18)
         IN IF /\ sp1 >= 1 /\ nd >= 1 /\ sp2 >= 1
               /\ DigitsFrom(s, yr) = 4
               /\ sp3 >= 1
               /\ ClockAt(s, clk)
               /\ sp4 >= 1
            THEN clk + 18 + sp4 - 1
            ELSE 0

StripNothing(event) == event
\* lines 157-158: re.sub(pattern, '', event)
stripped_event(event) == SubSeq(event, StampLength(event) + 1, Len(event))

\* line 147: any(e in event for e in uninteresting_events)
Uninteresting(event) ==
    \E k \in 1..Len(uninteresting_events) : Contains(event, uninteresting_events[k])

QueriesOracleAlways(event) == TRUE
\* lines 147-149: is_scrub_in_progress() is called for a scrub_finish event that
\* is not uninteresting
QueriesOracle(event) == ~Uninteresting(event) /\ Contains(event, ScrubFinish)

\* lines 30-35 of is_scrub_in_progress, on the output of zpool status
is_scrub_in_progress(output) ==
    \E k \in 1..Len(SplitLines(output)) : Contains(SplitLines(output)[k], ScrubInProgressText)

\* line 151: event in lines
IsOld(event, snapshot) == \E k \in 1..Len(snapshot) : snapshot[k] = event

\* Per line of the stream: line 137's event, the tests of lines 147 and 149
\* on it, and the label of line 158.
Intake ==
    [raw \in Records |->
        [event    |-> Strip(raw),
         ignored  |-> Uninteresting(Strip(raw)),
         asks     |-> QueriesOracle(Strip(raw)),
         finish   |-> Contains(Strip(raw), ScrubFinish),
         label    |-> stripped_event(Strip(raw))]]

\* Per outcome of zpool status: does is_scrub_in_progress return True.
Scrubbing == [st \in StatusResults |-> st.ok /\ is_scrub_in_progress(st.output)]

\* zpool status runs only for the lines that reach line 149; the other lines
\* see no outcome of it.
NoStatus == [ok |-> TRUE, output |-> <<>>]
StatusFor(raw) == IF Intake[raw].asks THEN StatusResults ELSE {NoStatus}

\* lines 137-160: what becomes of the line `raw` when zpool status does `st`
Verdict(raw, st, snapshot) ==
    IF Intake[raw].asks /\ ~st.ok THEN "crash"
    ELSE IF Intake[raw].ignored THEN "ignore"
    ELSE IF Intake[raw].asks /\ Scrubbing[st] THEN "scrub"
    ELSE IF IsOld(Intake[raw].event, snapshot) THEN "old"
    ELSE "put"

OracleDid(raw, st) ==
    IF ~Intake[raw].asks THEN "unasked"
    ELSE IF ~st.ok THEN "fail"
    ELSE IF Scrubbing[st] THEN "yes" ELSE "no"

StartFaultIgnored == "spawn"
\* lines 56 and 129: check=True, a failing start notification ends main
AfterStartFault == "exited"

ThreadOutlivesMain(r) == r
\* line 132: a daemon thread ends with the main thread
ThreadAfterMainExit(r) == FALSE

\* ------------------------------------------------------------------ Init
Init ==
    /\ event_queue = <<>>
    /\ ready_to_send = <<>>
    /\ notification_index = -1
    /\ timeout = MAX_SECONDS_BETWEEN_NOTIFICATIONS
    /\ running = FALSE
    /\ out = <<>>
    /\ step = "start"
    /\ main = "notify"
    /\ lines = <<>>
    /\ started = <<>>
    /\ record = <<>>
    /\ oracle = "unasked"
    /\ early = <<>>
    /\ flushed = <<>>
    /\ waits = <<0, 0>>
    /\ quiet = "no"
    /\ since = [wait |-> 0, t |-> 0]

\* --------------------------------------------------------------- actions
\* Line 129: the start notification is sent.
StartupNotify ==
    /\ main = "notify"
    /\ started' = Append(started, StartText)
    /\ main' = "spawn"
    /\ out' = <<>>
    /\ flushed' = <<>>
    /\ record' = <<>>
    /\ oracle' = "unasked"
    /\ step' = "boot"
    /\ UNCHANGED <<event_queue, ready_to_send, notification_index, timeout, running,
                   early, waits, lines, quiet, since>>

\* Line 129: send_zpool_status raises.
StartupFault ==
    /\ main = "notify"
    /\ started' = started
    /\ main' = AfterStartFault
    /\ out' = <<>>
    /\ flushed' = <<>>
    /\ record' = <<>>
    /\ oracle' = "unasked"
    /\ step' = "bootfault"
    /\ UNCHANGED <<event_queue, ready_to_send, notification_index, timeout, running,
                   early, waits, lines, quiet, since>>

\* Lines 131-133 and 80-85: the scheduler thread starts, in Idle.
Spawn ==
    /\ main = "spawn"
    /\ main' = "snapshot"
    /\ running' = TRUE
    /\ notification_index' = -1
    /\ timeout' = MAX_SECONDS_BETWEEN_NOTIFICATIONS
    /\ ready_to_send' = <<>>
    /\ out' = <<>>
    /\ flushed' = <<>>
    /\ record' = <<>>
    /\ oracle' = "unasked"
    /\ step' = "spawn"
    /\ UNCHANGED <<event_queue, early, waits, lines, started, quiet, since>>

\* Line 135: the backlog of zpool events -H is kept.
ReadSnapshot ==
    /\ main = "snapshot"
    /\ \E o \in SnapshotOutputs : lines' = SplitLines(o)
    /\ main' = "watch"
    /\ out' = <<>>
    /\ flushed' = <<>>
    /\ record' = <<>>
    /\ oracle' = "unasked"
    /\ step' = "snapshot"
    /\ UNCHANGED <<event_queue, ready_to_send, notification_index, timeout, running,
                   early, waits, started, quiet, since>>

\* Lines 136-160: a line is read and its label is put on the queue.
Submit(raw, st) ==
    /\ main = "watch"
    /\ Verdict(raw, st, lines) = "put"
    /\ Len(event_queue) < MaxQueue
    /\ InFlight(Intake[raw].label) < MaxCount
    /\ event_queue' = Append(event_queue, Intake[raw].label)
    /\ early' = Append(early, timeout > 0)
    /\ out' = <<>>
    /\ flushed' = <<>>
    /\ record' = raw
    /\ oracle' = OracleDid(raw, st)
    /\ step' = "submit"
    /\ UNCHANGED <<ready_to_send, notification_index, timeout, running, waits, main,
                   lines, started, quiet, since>>

\* Lines 136-152: a line is read and dropped.
Discard(raw, st) ==
    /\ main = "watch"
    /\ Verdict(raw, st, lines) \in {"ignore", "scrub", "old"}
    /\ out' = <<>>
    /\ flushed' = <<>>
    /\ record' = raw
    /\ oracle' = OracleDid(raw, st)
    /\ step' = "discard"
    /\ UNCHANGED <<event_queue, ready_to_send, notification_index, timeout, running,
                   early, waits, main, lines, started, quiet, since>>

\* Lines 149 and 27: zpool status fails, the exception ends main and with it
\* the process; its queue and the scheduler's locals are gone.
OracleFault(raw, st) ==
    /\ main = "watch"
    /\ Verdict(raw, st, lines) = "crash"
    /\ main' = "exited"
    /\ running' = ThreadAfterMainExit(running)
    /\ out' = <<>>
    /\ flushed' = <<>>
    /\ record' = raw
    /\ oracle' = OracleDid(raw, st)
    /\ step' = "crash"
    /\ event_queue' = <<>>
    /\ early' = <<>>
    /\ ready_to_send' = <<>>
    /\ notification_index' = -1
    /\ timeout' = 0
    /\ waits' = <<0, 0>>
    /\ lines' = <<>>
    /\ quiet' = "no"
    /\ since' = [wait |-> 0, t |-> 0]
    /\ UNCHANGED started

\* Lines 135-136: the event source ends or cannot be read: main returns (or
\* raises) and the process exits; its queue and the scheduler's locals are gone.
SourceEnds ==
    /\ main \in {"snapshot", "watch"}
    /\ main' = "exited"
    /\ running' = ThreadAfterMainExit(running)
    /\ out' = <<>>
    /\ flushed' = <<>>
    /\ record' = <<>>
    /\ oracle' = "unasked"
    /\ step' = "eof"
    /\ event_queue' = <<>>
    /\ early' = <<>>
    /\ ready_to_send' = <<>>
    /\ notification_index' = -1
    /\ timeout' = 0
    /\ waits' = <<0, 0>>
    /\ lines' = <<>>
    /\ quiet' = "no"
    /\ since' = [wait |-> 0, t |-> 0]
    /\ UNCHANGED started

\* The wall clock advances to the next sampled instant of the current wait.
Tick ==
    /\ running
    /\ \E t \in {CurrentWait - Small, Small, 0, -Small} :
          /\ t < timeout
          /\ timeout' = t
    /\ quiet' = IF /\ timeout' <= 0
                    /\ notification_index >= 0
                    /\ ready_to_send = <<>>
                    /\ event_queue = <<>>
                 THEN "expired"
                 ELSE quiet
    /\ since' = [since EXCEPT !.t = Min(since.t + (timeout - timeout'), since.wait)]
    /\ out' = <<>>
    /\ flushed' = <<>>
    /\ record' = <<>>
    /\ oracle' = "unasked"
    /\ step' = "tick"
    /\ UNCHANGED <<event_queue, ready_to_send, notification_index, running, early, waits,
                   main, lines, started>>

\* Lines 88-101: the deadline is ahead and event_queue.get returns an item.
GetItem ==
    /\ running
    /\ CanWait(timeout)
    /\ event_queue # <<>>
    /\ ready_to_send' = Incr(ready_to_send, Head(event_queue))
    /\ event_queue' = Tail(event_queue)
    /\ early' = Tail(early)
    /\ timeout' = DeadlineAfterGet(notification_index, timeout)
    /\ notification_index' = IndexAfterGet(notification_index)
    /\ quiet' = IF quiet = "expired" THEN "rearmed" ELSE "no"
    /\ out' = <<>>
    /\ flushed' = <<>>
    /\ record' = <<>>
    /\ oracle' = "unasked"
    /\ step' = "get"
    /\ UNCHANGED <<running, waits, main, lines, started, since>>

\* Lines 106-108 and 80-84: the deadline expired with nothing gathered.
ReturnToIdle ==
    /\ running
    /\ timeout <= 0
    /\ Len(ready_to_send) = 0
    /\ notification_index' = IndexWhenIdle(notification_index)
    /\ timeout' = MAX_SECONDS_BETWEEN_NOTIFICATIONS
    /\ ready_to_send' = <<>>
    /\ waits' = <<0, 0>>
    /\ out' = <<>>
    /\ flushed' = <<>>
    /\ record' = <<>>
    /\ oracle' = "unasked"
    /\ step' = "idle"
    /\ UNCHANGED <<event_queue, running, early, main, lines, started, quiet, since>>

\* Lines 110-120: the deadline expired, the batch is sent and the ladder advances.
Flush ==
    /\ running
    /\ timeout <= 0
    /\ Len(ready_to_send) # 0
    /\ out' = <<Render(ready_to_send)>>
    /\ flushed' = ready_to_send
    /\ notification_index' = NextIndex(notification_index)
    /\ timeout' = Ladder(notification_index')
    /\ ready_to_send' = <<>>
    /\ waits' = <<waits[2], timeout'>>
    /\ since' = [wait |-> timeout', t |-> 0]
    /\ record' = <<>>
    /\ oracle' = "unasked"
    /\ step' = "flush"
    /\ UNCHANGED <<event_queue, running, early, main, lines, started, quiet>>

\* Lines 115 and 122-124: send_zpool_status raises, the thread exits.
NotifierFault ==
    /\ running
    /\ timeout <= 0
    /\ Len(ready_to_send) # 0
    /\ out' = <<Render(ready_to_send)>>
    /\ flushed' = ready_to_send
    /\ running' = FALSE
    /\ record' = <<>>
    /\ oracle' = "unasked"
    /\ step' = "fault"
    /\ UNCHANGED <<event_queue, ready_to_send, notification_index, timeout, early,
                   waits, main, lines, started, quiet, since>>

Scheduler == GetItem \/ ReturnToIdle \/ Flush \/ NotifierFault

Next ==
    \/ StartupNotify
    \/ StartupFault
    \/ Spawn
    \/ ReadSnapshot
    \/ \E raw \in Records : \E st \in StatusFor(raw) : Submit(raw, st)
    \/ \E raw \in Records : \E st \in StatusFor(raw) : Discard(raw, st)
    \/ \E raw \in Records : \E st \in StatusFor(raw) : OracleFault(raw, st)
    \/ SourceEnds
    \/ Tick
    \/ GetItem
    \/ ReturnToIdle
    \/ Flush
    \/ NotifierFault

Spec == Init /\ [][Next]_vars

\* The lines of a stream of new events: some are put on the queue as they
\* are, a scrub_finish is put, dropped or fatal as zpool status decides.
LiveRecords ==
    { Stamp \o <<97, 98>> \o <<Newline>>,
      Stamp \o ScrubFinish \o <<Newline>> }

LiveNext ==
    \/ StartupNotify
    \/ StartupFault
    \/ Spawn
    \/ ReadSnapshot
    \/ \E raw \in LiveRecords : \E st \in StatusFor(raw) : Submit(raw, st)
    \/ \E raw \in LiveRecords : \E st \in StatusFor(raw) : Discard(raw, st)
    \/ \E raw \in LiveRecords : \E st \in StatusFor(raw) : OracleFault(raw, st)
    \/ SourceEnds
    \/ Tick
    \/ GetItem
    \/ ReturnToIdle
    \/ Flush
    \/ NotifierFault

\* The scheduler thread is scheduled and time passes.
FairSpec == Init /\ [][LiveNext]_vars /\ WF_vars(Tick) /\ WF_vars(Scheduler)

\* ------------------------------------------------------------------ claims
SchedulerSteps == {"get", "idle", "flush", "fault"}

\* C1: a label received in Idle (index -1) adds one to that label's count in
\* the pending batch, sets the deadline to the time of receipt + ladder[0] = 30s
\* and the index to 0 (Armed); a notification is only ever sent once the deadline
\* has expired.
C1_IdleSubmitArms ==
    [][ /\ (step' = "get" /\ notification_index = -1) =>
            /\ \A l \in Labels :
                  CountOf(ready_to_send', l) =
                      CountOf(ready_to_send, l) + (IF l = Head(event_queue) THEN 1 ELSE 0)
            /\ timeout' = SECONDS_BETWEEN_NOTIFICATIONS[1]
            /\ timeout' = 30
            /\ notification_index' = 0
            /\ out' = <<>>
        /\ (out' # <<>>) => timeout <= 0
      ]_vars

C1_Witness ==
    /\ step = "get"
    /\ notification_index = 0
    /\ timeout = 30
    /\ \E l \in Labels : ready_to_send = << <<l, 1>> >>

\* C2: in Armed or Escalated(k), a submit changes nothing of the scheduler's
\* state and its receipt only adds one to the count of its label: the deadline
\* and the ladder index stay as they are.
C2_SubmitKeepsDeadline ==
    [][ (notification_index >= 0 /\ step' \in {"submit", "get"}) =>
            /\ timeout' = timeout
            /\ notification_index' = notification_index
            /\ step' = "submit" => ready_to_send' = ready_to_send
            /\ step' = "get" =>
                  \A l \in Labels :
                      CountOf(ready_to_send', l) =
                          CountOf(ready_to_send, l) + (IF l = Head(event_queue) THEN 1 ELSE 0)
      ]_vars

\* Scenario D: a label is absorbed Small seconds after the flush at index 0,
\* the 300s deadline keeps running.
C2_Witness ==
    /\ step = "get"
    /\ notification_index = 1
    /\ timeout = 300 - Small
    /\ ready_to_send # <<>>

\* C3: when the deadline has expired with a non-empty pending batch and the
\* notifier call returns, the scheduler's step sends exactly one notification,
\* of that batch, sets the index to min(index+1, len(ladder)-1), clears the
\* batch and sets the deadline to now + ladder[new index]; it is then Escalated.
C3_FlushAdvances ==
    [][ (step' \in SchedulerSteps /\ timeout <= 0 /\ ready_to_send # <<>> /\ running') =>
            /\ Len(out') = 1
            /\ flushed' = ready_to_send
            /\ notification_index' =
                   Min(notification_index + 1, Len(SECONDS_BETWEEN_NOTIFICATIONS) - 1)
            /\ notification_index' >= 1
            /\ ready_to_send' = <<>>
            /\ timeout' = SECONDS_BETWEEN_NOTIFICATIONS[notification_index' + 1]
      ]_vars

C3_Witness ==
    /\ step = "flush"
    /\ Len(out) = 1
    /\ notification_index = 3
    /\ timeout = 7200
    /\ ready_to_send = <<>>

ArmedWithOne(l) == notification_index = 0 /\ ready_to_send = << <<l, 1>> >>

\* C5 as stated: after a single label from Idle and the expiry of the 30s
\* deadline the notification is sent, the index becomes 0 and the new deadline
\* is now + 300s.
C5_Original ==
    [][ \A l \in Labels :
          (ArmedWithOne(l) /\ step' = "flush") =>
              /\ out' = <<l>>
              /\ notification_index' = 0
              /\ timeout' = 300
      ]_vars

\* C5 amended: after a single label from Idle and the expiry of the 30s
\* deadline the notification (the bare label) is sent, the index becomes 1
\* and the new deadline is now + 300s.
C5_SingleEvent ==
    [][ \A l \in Labels :
          (ArmedWithOne(l) /\ step' = "flush") =>
              /\ timeout <= 0
              /\ out' = <<l>>
              /\ notification_index' = 1
              /\ timeout' = 300
      ]_vars

C5_Witness ==
    /\ step = "flush"
    /\ notification_index = 1
    /\ timeout = 300
    /\ \E l \in Labels : out = <<l>> /\ flushed = << <<l, 1>> >>

\* C6: with no return to Idle in between, the wait set by a flush is at least
\* the wait set by the flush before it and at most ladder[-1] = 48h; once 48h
\* is reached every further flush sets 48h.
C6_EscalationMonotone ==
    /\ waits[1] <= waits[2]
    /\ waits[2] <= 172800
    /\ waits[2] <= SECONDS_BETWEEN_NOTIFICATIONS[Len(SECONDS_BETWEEN_NOTIFICATIONS)]
    /\ waits[1] = 172800 => waits[2] = 172800
    /\ step = "flush" => timeout = waits[2]

C6_Witness ==
    /\ step = "flush"
    /\ notification_index = 6
    /\ waits = <<172800, 172800>>

\* C7: when the deadline of an Armed or Escalated wait has passed with nothing
\* pending and no label in between, the next label received arms the scheduler
\* at index 0 with a deadline of ladder[0] = 30s, whatever the index was.
C7_IdleReset ==
    [][ (step' = "get" /\ quiet = "expired") =>
            /\ notification_index' = 0
            /\ timeout' = 30
      ]_vars

C7_Witness ==
    /\ quiet = "rearmed"
    /\ step = "get"
    /\ notification_index = 0
    /\ timeout = 30

\* C8 as stated: every label submitted strictly before the deadline is part of
\* the next notification, none is still waiting in the queue when it is sent.
C8_NoDrop ==
    [][ (out' # <<>>) => \A i \in 1..Len(early) : ~early[i] ]_vars

\* ---- reading a notification text back
\* The position of the first ", " in t, 0 if there is none.
FirstSep(t) ==
    IF \E i \in 1..(Len(t) - 1) : t[i] = 44 /\ t[i + 1] = 32
    THEN CHOOSE i \in 1..(Len(t) - 1) :
             /\ t[i] = 44 /\ t[i + 1] = 32
             /\ \A j \in 1..(i - 1) : ~(t[j] = 44 /\ t[j + 1] = 32)
    ELSE 0

\* The pieces of t between the ", " separators.
RECURSIVE Pieces(_)
Pieces(t) ==
    IF FirstSep(t) = 0 THEN <<t>>
    ELSE <<SubSeq(t, 1, FirstSep(t) - 1)>> \o Pieces(SubSeq(t, FirstSep(t) + 2, Len(t)))

HasCount(piece) == \E i \in 1..Len(piece) : piece[i] = 58

ColonAt(piece) == CHOOSE i \in 1..Len(piece) : piece[i] = 58

LabelPart(piece) == IF HasCount(piece) THEN SubSeq(piece, 1, ColonAt(piece) - 1) ELSE piece

\* The number whose decimal digits follow the ':'.
RECURSIVE Decimal(_)
Decimal(digits) ==
    IF digits = <<>> THEN 0
    ELSE 10 * Decimal(SubSeq(digits, 1, Len(digits) - 1)) + (digits[Len(digits)] - 48)

CountPart(piece) == Decimal(SubSeq(piece, ColonAt(piece) + 1, Len(piece)))

\* C9: the text of a notification has one piece per label of the batch, in
\* lexicographic order of the labels (whatever order they were received in);
\* if every count is 1 no piece has a ':count' suffix, otherwise every piece
\* is label:count with the count of its label, those with count 1 included.
C9_Rendering ==
    (out # <<>>) =>
        LET pieces == Pieces(out[1]) IN
        /\ Len(pieces) = Len(flushed)
        /\ {LabelPart(pieces[i]) : i \in 1..Len(pieces)} = Keys(flushed)
        /\ \A i \in 1..(Len(pieces) - 1) :
              LexLess(LabelPart(pieces[i]), LabelPart(pieces[i + 1]))
        /\ IF \A k \in Keys(flushed) : CountOf(flushed, k) = 1
           THEN \A i \in 1..Len(pieces) : ~HasCount(pieces[i])
           ELSE \A i \in 1..Len(pieces) :
                   /\ HasCount(pieces[i])
                   /\ CountPart(pieces[i]) = CountOf(flushed, LabelPart(pieces[i]))

\* A batch received out of order, one label once and one twice:
\* "ab:2, sysevent.fs.zfs.scrub_finish:1".
C9_Witness ==
    /\ step = "flush"
    /\ flushed = << <<ScrubFinish, 1>>, <<<<97, 98>>, 2>> >>
    /\ out = << <<97, 98, 58, 50, 44, 32>> \o ScrubFinish \o <<58, 49>> >>

\* C10: while a batch is pending, neither a submit nor its receipt nor the
\* passage of time moves the deadline further away, and with the scheduler
\* thread running a pending batch always leads to a call of the notifier,
\* whatever keeps arriving in the queue, unless the process exits first.
C10_DeadlineNotPushedOut ==
    /\ [][ (ready_to_send # <<>> /\ step' \in {"submit", "get", "tick"}) =>
               timeout' <= timeout ]_vars
    /\ (running /\ ready_to_send # <<>>) ~> (out # <<>> \/ main = "exited")

\* A notification goes out at its deadline with labels still arriving.
C10_Witness ==
    /\ step = "flush"
    /\ out # <<>>
    /\ Len(event_queue) = MaxQueue
    /\ \E i \in 1..Len(early) : early[i]

\* C11: once the scheduler thread has exited on a fault of the notifier, the
\* process is over: Intake reads no further line and puts no further label.
C11_FaultIsFatal ==
    [][ step' \in {"submit", "discard"} => running ]_vars

\* C12: when zpool status fails for a scrub_finish line, Intake goes on: the
\* line is treated as not suppressed, its label is put and main keeps watching.
C12_OracleFaultAbsorbed ==
    [][ oracle' = "fail" =>
            /\ main' = "watch"
            /\ step' = "submit"
            /\ event_queue' = Append(event_queue, ScrubFinish) ]_vars

\* ---- reading a line of the stream as the claims describe it
\* The line's text, without the newline that ends it.
Text(raw) == SubSeq(raw, 1, Len(raw) - 1)

StartsWith(s, p) == Len(s) >= Len(p) /\ SubSeq(s, 1, Len(p)) = p

\* The line without its leading timestamp, the line itself if it has none.
WithoutTimestamp(raw) ==
    IF StartsWith(Text(raw), Stamp) THEN SubSeq(Text(raw), Len(Stamp) + 1, Len(Text(raw)))
    ELSE IF StartsWith(Text(raw), OldStamp)
         THEN SubSeq(Text(raw), Len(OldStamp) + 1, Len(Text(raw)))
    ELSE Text(raw)

\* Per line: does it hold one of the four ignored substrings, is it a
\* scrub-finish record, and the label the claim expects for it.
Expected ==
    [raw \in Records |->
        [ignored |-> \E e \in {HistoryEvent, TrimStart, TrimFinish, ScrubStart} :
                         Contains(raw, e),
         finish  |-> Contains(raw, ScrubFinish),
         label   |-> WithoutTimestamp(raw)]]

InSnapshot(raw, snapshot) == \E k \in 1..Len(snapshot) : snapshot[k] = Text(raw)

\* The line is one the claim says Intake drops.
Dropped(raw, scrub, snapshot) ==
    \/ Expected[raw].ignored
    \/ Expected[raw].finish /\ scrub = "yes"
    \/ InSnapshot(raw, snapshot)

C14_OracleOnlyForScrubFinish ==
    [][ /\ oracle' # "unasked" =>
            /\ step' \in {"submit", "discard", "crash"}
            /\ Expected[record'].finish
        /\ (step' \in {"submit", "discard"} /\ ~Expected[record'].finish) =>
            oracle' = "unasked"
        /\ (step' \in {"submit", "discard"} /\ Expected[record'].ignored) =>
            oracle' = "unasked" ]_vars

\* A scrub_finish line was dropped because zpool status reported a scrub.
C14_Witness ==
    /\ step = "discard"
    /\ record = Stamp \o ScrubFinish \o <<Newline>>
    /\ oracle = "yes"

\* C15: at most one start notification is ever sent; the scheduler thread runs,
\* the snapshot and every line are read, and every scheduler step is taken, only
\* after exactly one was sent; and if sending it failed the process is over with
\* no thread started and nothing read.
C15_StartNotificationFirst ==
    /\ [](Len(started) <= 1)
    /\ []((running \/ main \in {"snapshot", "watch"}) => started = <<StartText>>)
    /\ [][ step' \in SchedulerSteps \cup {"spawn", "snapshot", "submit", "discard", "crash"} =>
               /\ started = <<StartText>>
               /\ started' = started ]_vars
    /\ [](step = "bootfault" =>
              /\ main = "exited"
              /\ started = <<>>
              /\ ~running
              /\ event_queue = <<>>
              /\ ~ENABLED Next)

\* An event notification goes out after the one start notification.
C15_Witness ==
    /\ step = "flush"
    /\ out # <<>>
    /\ started = <<StartText>>

\* C16: when the event source ends, main is over and the scheduler thread with
\* it: no scheduler step and no clock reading of the thread follows.
C16_SourceEndStopsAll ==
    /\ [][ step' = "eof" => (main' = "exited" /\ ~running') ]_vars
    /\ [](main = "exited" => ~running)
    /\ [][ main = "exited" => step' \notin SchedulerSteps \cup {"tick"} ]_vars

\* The source ended after the process had started up.
C16_Witness ==
    /\ step = "eof"
    /\ main = "exited"
    /\ started = <<StartText>>
    /\ ~running

\* C17: when the scheduler finds that the 60 days of an Idle wait have passed
\* without an event, it sends a notification.
C17_NotificationAnyway ==
    [][ (step' \in SchedulerSteps /\ notification_index = -1 /\ timeout <= 0) =>
            out' # <<>> ]_vars

\* C18: while the process lives and the notifier does not fail, every step
\* keeps each label's number in the queue plus the pending batch plus the
\* notification the step sends: a submit adds one for the label it puts, at the
\* queue's end, and leaves the batch, the deadline and the index alone; a flush
\* sends the whole batch and empties it; a step that sends nothing leaves the
\* number as it is.
C18_Conservation ==
    [][ step' \notin {"fault", "crash", "eof", "bootfault"} =>
          /\ \A l \in Labels :
                InFlight(l)' + CountOf(flushed', l) =
                    InFlight(l) + (IF step' = "submit" /\ event_queue'[Len(event_queue')] = l
                                   THEN 1 ELSE 0)
          /\ step' = "submit" =>
                /\ Len(event_queue') = Len(event_queue) + 1
                /\ SubSeq(event_queue', 1, Len(event_queue)) = event_queue
                /\ UNCHANGED <<ready_to_send, timeout, notification_index>>
          /\ step' = "discard" =>
                UNCHANGED <<event_queue, ready_to_send, timeout, notification_index>>
          /\ step' = "flush" =>
                /\ flushed' = ready_to_send
                /\ ready_to_send' = <<>>
                /\ event_queue' = event_queue
          /\ step' # "flush" => flushed' = <<>> ]_vars

\* A notification carries both submits of one label while a label put later
\* waits in the queue.
C18_Witness ==
    /\ step = "flush"
    /\ flushed = << <<<<97, 98>>, 2>> >>
    /\ event_queue = << ScrubFinish >>

\* C19: in every state between two scheduler steps the index is in -1..6, every
\* label of the pending batch has a count of at least 1, the batch is empty in
\* Idle (index -1) and non-empty in Armed (index 0); so the scheduler step that
\* finds an Armed deadline expired calls the notifier.
C19_SchedulerInvariants ==
    /\ [](/\ notification_index \in -1..6
          /\ \A i \in 1..Len(ready_to_send) : ready_to_send[i][2] >= 1
          /\ notification_index = -1 => ready_to_send = <<>>
          /\ notification_index = 0 => ready_to_send # <<>>)
    /\ [][ (step' \in SchedulerSteps /\ notification_index = 0 /\ timeout <= 0) =>
               /\ step' \in {"flush", "fault"}
               /\ out' # <<>> ]_vars

\* The deadline of Armed expired and the batch was sent.
C19_Witness ==
    /\ step = "flush"
    /\ notification_index = 1
    /\ out # <<>>
    /\ waits = <<0, 300>>

\* C20: a notification of the scheduler is sent only when the wait set by the
\* notification before it has passed in full, and that wait is at least
\* ladder[1] = 300 seconds, whether or not the scheduler was Idle in between;
\* every wait a notification sets is the ladder interval of the new index, which
\* is at least 1.
C20_NotificationSpacing ==
    [][ step' = "flush" =>
          /\ since.wait # 0 => (since.wait >= 300 /\ since.t >= since.wait)
          /\ notification_index' >= 1
          /\ since'.wait = SECONDS_BETWEEN_NOTIFICATIONS[notification_index' + 1]
          /\ since'.wait >= SECONDS_BETWEEN_NOTIFICATIONS[2] ]_vars

\* A burst's first notification, sent after the scheduler went back to Idle
\* from an earlier burst.
C20_Witness ==
    /\ step = "flush"
    /\ notification_index = 1
    /\ quiet = "rearmed"
    /\ since = [wait |-> 300, t |-> 0]

TypeOK ==
    /\ notification_index \in -1..LastIndex
    /\ Len(event_queue) <= MaxQueue
    /\ Len(early) = Len(event_queue)
    /\ running \in BOOLEAN
    /\ main \in {"notify", "spawn", "snapshot", "watch", "exited"}
    /\ oracle \in {"unasked", "fail", "yes", "no"}
    /\ since.t <= since.wait
====
